---- MODULE Spec2Model ----
(***************************************************************************)
(* Model of the smart-storage-manager backend (src/backend).               *)
(*                                                                         *)
(*  SpecSync   : POST /api/sync/trigger, its worker thread, the scheduler  *)
(*               jobs and the shared cache with its time-to-live.          *)
(*  SpecAction : POST /api/content/<id>/action (delete / archive), the     *)
(*               media server, the library managers and the cache.         *)
(*  SpecRules  : the rule engine of analysis_service, a second pass over   *)
(*               its output and the aggregate built from the result.       *)
(*  SpecSnapshot : the snapshot builder of plex_service followed by a      *)
(*               rule-engine pass.                                         *)
(*  SpecDashboard : GET /api/dashboard, the callers of the snapshot        *)
(*               builder and the time-to-live of the published aggregate.  *)
(*  SpecSettings : settings_service.load_settings / save_settings and the *)
(*               resolvers of config.py and sync_service.py.               *)
(***************************************************************************)
EXTENDS Integers, Sequences, FiniteSets, TLC

VARIABLES
    cache,        \* cache_service.cache: key -> [present, exp, v]
    now,          \* wall clock, in ticks of TickSeconds
    pc,           \* trigger_manual_sync: position of each HTTP request
    resp,         \* trigger_manual_sync: HTTP status answered to each request
    thread,       \* perform_full_sync_and_clear_flag thread spawned by each request
    outcome,      \* how perform_full_sync ended in that thread
    job,          \* scheduler jobs running perform_full_sync
    plexItems,    \* ratingKeys present in the media server
    settings,     \* what settings_service.load_settings() returns
    lastReq,      \* handle_action: the request handled last
    lastResp,     \* handle_action: the response to it
    lastCalls,    \* handle_action: upstream / cache mutations it performed
    media_list,   \* _cache_media_rules: the list it mutates in place
    input_list,   \* the same list as it was handed in
    rule_settings,\* the settings handed to the rule engine
    rule_now,     \* datetime.now() of the pass, in half days
    rule_pc,      \* "input" before the pass, "classified" after it
    aggregate,    \* perform_full_sync: candidates and potentialSavings built
    library,      \* what the media server and the library managers hold
    lastRun,      \* the perform_full_sync / cleanup / content call made last
    dashResp,     \* get_dashboard_data: the response given last
    environ,      \* os.environ after load_dotenv
    files,        \* the settings files on disk, by path
    saving,       \* a save_settings call between open(..., 'w') and the close
    lastOp        \* the settings call made last and what it returned

vars == <<cache, now, pc, resp, thread, outcome, job, plexItems, settings,
          lastReq, lastResp, lastCalls, media_list, input_list,
          rule_settings, rule_now, rule_pc, aggregate, library, lastRun,
          dashResp,
          environ, files, saving, lastOp>>

syncVars   == <<pc, resp, thread, outcome, job, now>>
actionVars == <<plexItems, settings, lastReq, lastResp, lastCalls>>
ruleVars   == <<media_list, input_list, rule_settings, rule_now, rule_pc, aggregate>>
snapVars   == <<library>>
dashVars   == <<lastRun, dashResp>>
setVars    == <<environ, files, saving, lastOp>>

----------------------------------------------------------------------------
(* Bounds *)

NumRequests == 2      \* concurrent POST /api/sync/trigger requests
MaxTime     == 1      \* clock ticks explored (one guard lifetime)
NumMedia    == 2      \* items in the media server
MaxItems    == 2      \* length of the list handed to the rule engine
Today       == 1000   \* day number of datetime.now() in a rule-engine pass
MaxDashSteps == 2     \* clock steps of half a cache lifetime explored

(* Program constants *)

GuardTimeout  == 1800
CACHE_TIMEOUT == 21600

TickSeconds == GuardTimeout          \* one clock tick is one guard lifetime

Requests == 1..NumRequests
MediaIds == 1..NumMedia
Jobs     == {"full_sync_job", "initial_sync_job"}

NULL == "<None>"                     \* Python None where a string is expected

----------------------------------------------------------------------------
(* cache_service: cachelib SimpleCache *)

CacheKeys ==
    {"is_syncing", "dashboard_data", "plex_media", "plex_media_data_full", "analyzed_media"}

NoEntry(k) ==
    [present |-> FALSE, exp |-> 0,
     v |-> IF k = "is_syncing" THEN FALSE ELSE {}]

EmptyCache == [k \in CacheKeys |-> NoEntry(k)]

\* an entry is returned when it is stored and has not expired
CacheHas(c, k, t) == c[k].present /\ (c[k].exp = 0 \/ c[k].exp > t)

CacheGet(c, k, t) == IF CacheHas(c, k, t) THEN c[k].v ELSE NoEntry(k).v

CacheSet(c, k, val, timeout, t) ==
    [c EXCEPT ![k] = [present |-> TRUE,
                      exp |-> IF timeout > 0 THEN t + (timeout \div TickSeconds) ELSE 0,
                      v |-> val]]

CacheDelete(c, k) == [c EXCEPT ![k] = NoEntry(k)]

----------------------------------------------------------------------------
(* plex_service.get_plex_library / sync_service.perform_full_sync *)

\* _get_plex_library: a bare list [] without a connection, a Media object otherwise
FetchPlexLibrary(items, connected) ==
    IF connected THEN [isMedia |-> TRUE, all_media |-> items]
                 ELSE [isMedia |-> FALSE, all_media |-> {}]

\* get_plex_library: cached under "plex_media" when the fresh object is non-empty
get_plex_library(c, t, items, connected) ==
    IF CacheHas(c, "plex_media", t)
    THEN [cache |-> c, data |-> [isMedia |-> TRUE, all_media |-> CacheGet(c, "plex_media", t)]]
    ELSE LET fresh == FetchPlexLibrary(items, connected)
         IN  [cache |-> IF fresh.isMedia /\ fresh.all_media # {}
                        THEN CacheSet(c, "plex_media", fresh.all_media, CACHE_TIMEOUT, t)
                        ELSE c,
              data  |-> fresh]

\* analysis_service.apply_rules_to_media: the cached result when there is one,
\* whatever list it is handed; a fresh non-empty result is cached.  The
\* analyzed list is represented by the ratingKeys it holds.
apply_rules_to_media(c, t, media) ==
    IF CacheHas(c, "analyzed_media", t)
    THEN [cache |-> c, data |-> CacheGet(c, "analyzed_media", t)]
    ELSE [cache |-> IF media # {} THEN CacheSet(c, "analyzed_media", media, CACHE_TIMEOUT, t)
                                  ELSE c,
          data  |-> media]

\* lines 122-142: the aggregate, a dict computed from the snapshot (library
\* statistics) and from the analyzed list (candidates, savings)
DashboardData(all_media, analyzed_media) ==
    [media |-> all_media, analyzed |-> analyzed_media]

perform_full_sync_clear_on_failure(c, t, items, connected, stageFails) ==
    LET lib == get_plex_library(c, t, items, connected)
    IN  IF ~lib.data.isMedia THEN CacheDelete(lib.cache, "dashboard_data")
        ELSE LET an == apply_rules_to_media(lib.cache, t, lib.data.all_media)
             IN  IF stageFails THEN CacheDelete(an.cache, "dashboard_data")
                 ELSE CacheSet(an.cache, "dashboard_data",
                               DashboardData(lib.data.all_media, an.data), CACHE_TIMEOUT, t)

\* perform_full_sync: every Exception is caught at the top level; the dashboard
\* is published only when no stage raised.  Reading .all_media of the bare
\* list raises AttributeError; stageFails stands for a later stage raising.
perform_full_sync(c, t, items, connected, stageFails) ==
    LET lib == get_plex_library(c, t, items, connected)
    IN  IF ~lib.data.isMedia THEN lib.cache
        ELSE LET an == apply_rules_to_media(lib.cache, t, lib.data.all_media)
             IN  IF stageFails THEN an.cache
                 ELSE CacheSet(an.cache, "dashboard_data",
                               DashboardData(lib.data.all_media, an.data), CACHE_TIMEOUT, t)

----------------------------------------------------------------------------
(* app.trigger_manual_sync and perform_full_sync_and_clear_flag *)

\* line 537: the guard check; 429 when the flag reads as true
TriggerCheck(r) ==
    /\ pc[r] = "idle"
    /\ IF CacheGet(cache, "is_syncing", now) = TRUE
       THEN /\ pc' = [pc EXCEPT ![r] = "done"]
            /\ resp' = [resp EXCEPT ![r] = 429]
       ELSE /\ pc' = [pc EXCEPT ![r] = "checked"]
            /\ resp' = resp
    /\ UNCHANGED <<cache, now, thread, outcome, job>>
    /\ UNCHANGED <<actionVars, ruleVars, snapVars, dashVars, setVars>>

\* line 544: the guard set
TriggerSet(r) ==
    /\ pc[r] = "checked"
    /\ cache' = CacheSet(cache, "is_syncing", TRUE, GuardTimeout, now)
    /\ pc' = [pc EXCEPT ![r] = "set"]
    /\ UNCHANGED <<now, resp, thread, outcome, job>>
    /\ UNCHANGED <<actionVars, ruleVars, snapVars, dashVars, setVars>>

\* lines 548-552: the worker thread starts and the request is answered 202
TriggerStart(r) ==
    /\ pc[r] = "set"
    /\ thread' = [thread EXCEPT ![r] = "running"]
    /\ resp' = [resp EXCEPT ![r] = 202]
    /\ pc' = [pc EXCEPT ![r] = "done"]
    /\ UNCHANGED <<cache, now, outcome, job>>
    /\ UNCHANGED <<actionVars, ruleVars, snapVars, dashVars, setVars>>

\* lines 553-557: Thread.start() raised; the flag is cleared and 500 answered
TriggerStartFails(r) ==
    /\ pc[r] = "set"
    /\ cache' = CacheDelete(cache, "is_syncing")
    /\ resp' = [resp EXCEPT ![r] = 500]
    /\ pc' = [pc EXCEPT ![r] = "done"]
    /\ UNCHANGED <<now, thread, outcome, job>>
    /\ UNCHANGED <<actionVars, ruleVars, snapVars, dashVars, setVars>>

\* line 565: perform_full_sync() runs in the worker thread; it returns (after
\* publishing or after catching a failed stage) or a non-Exception escapes it
SyncBody(r) ==
    /\ thread[r] = "running"
    /\ \/ /\ outcome' = [outcome EXCEPT ![r] = "raised"]
          /\ cache' = cache
       \/ /\ outcome' = [outcome EXCEPT ![r] = "returned"]
          /\ \E connected \in BOOLEAN, stageFails \in BOOLEAN :
                cache' = perform_full_sync(cache, now, plexItems, connected, stageFails)
    /\ thread' = [thread EXCEPT ![r] = "finally"]
    /\ UNCHANGED <<now, pc, resp, job>>
    /\ UNCHANGED <<actionVars, ruleVars, snapVars, dashVars, setVars>>

ClearFlagKept(c) == c

ClearFlag(c) == CacheDelete(c, "is_syncing")

\* lines 566-569: the finally block
SyncFinally(r) ==
    /\ thread[r] = "finally"
    /\ cache' = ClearFlag(cache)
    /\ thread' = [thread EXCEPT ![r] = "ended"]
    /\ UNCHANGED <<now, pc, resp, outcome, job>>
    /\ UNCHANGED <<actionVars, ruleVars, snapVars, dashVars, setVars>>

\* lines 143-144: the scheduler starts perform_full_sync; it never touches the flag.
\* initial_sync_job runs once, full_sync_job at every interval.
JobStart(j) ==
    /\ job[j] = "waiting"
    /\ job' = [job EXCEPT ![j] = "running"]
    /\ UNCHANGED <<cache, now, pc, resp, thread, outcome>>
    /\ UNCHANGED <<actionVars, ruleVars, snapVars, dashVars, setVars>>

JobEnd(j) ==
    /\ job[j] = "running"
    /\ \E connected \in BOOLEAN, stageFails \in BOOLEAN :
          cache' = perform_full_sync(cache, now, plexItems, connected, stageFails)
    /\ job' = [job EXCEPT ![j] = IF j = "initial_sync_job" THEN "finished" ELSE "waiting"]
    /\ UNCHANGED <<now, pc, resp, thread, outcome>>
    /\ UNCHANGED <<actionVars, ruleVars, snapVars, dashVars, setVars>>

\* time passes
Tick ==
    /\ now < MaxTime
    /\ now' = now + 1
    /\ UNCHANGED <<cache, pc, resp, thread, outcome, job>>
    /\ UNCHANGED <<actionVars, ruleVars, snapVars, dashVars, setVars>>

----------------------------------------------------------------------------
(* app.handle_action: POST /api/content/<media_id>/action *)

ArchivePaths == {"/archive/tv", "/archive/movies"}
Paths        == ArchivePaths \cup {"/media/other"}
FilePaths    == {"/media/tv/Show/S01E01.mkv"}
ItemTypes    == {"tv", "movie"}
Actions      == {"delete", "archive", "rename"}
RequestIds   == MediaIds \cup {0}            \* 0: a ratingKey the server never had

\* not x, for a string or None
Falsy(x) == x = NULL \/ x = ""

NoRequest ==
    [action |-> "none", media_id |-> 0, type |-> "movie",
     archivePath |-> NULL, filePath |-> NULL]

\* the bodies handle_action is exercised with: the fields a branch never reads
\* are left at their defaults
ActionRequests ==
    [action : {"delete"}, media_id : RequestIds, type : {"movie"},
     archivePath : {NULL}, filePath : {NULL}]
    \cup
    [action : {"archive"}, media_id : MediaIds, type : ItemTypes,
     archivePath : Paths \cup {NULL, ""}, filePath : FilePaths \cup {NULL}]
    \cup
    [action : {"rename"}, media_id : {0}, type : ItemTypes,
     archivePath : {NULL, "/archive/tv"}, filePath : FilePaths]

\* what the upstream systems do during one request: the media-server
\* connection and delete for a delete, the manager's move for an archive
Upstream(req) ==
    IF req.action = "delete"
    THEN {[connected |-> FALSE, deleteRefused |-> FALSE, moveOk |-> FALSE],
          [connected |-> TRUE,  deleteRefused |-> TRUE,  moveOk |-> FALSE],
          [connected |-> TRUE,  deleteRefused |-> FALSE, moveOk |-> FALSE]}
    ELSE IF req.action = "archive"
    THEN {[connected |-> TRUE, deleteRefused |-> FALSE, moveOk |-> FALSE],
          [connected |-> TRUE, deleteRefused |-> FALSE, moveOk |-> TRUE]}
    ELSE {[connected |-> TRUE, deleteRefused |-> FALSE, moveOk |-> TRUE]}

NoResponse == [status |-> "none", code |-> 0]
Response(st, code) == [status |-> st, code |-> code]

\* one mutation performed by a handler
Call(op, key, id) == [op |-> op, key |-> key, id |-> id]

\* names bound in plex_service when delete_media_from_plex runs
PlexServiceNames ==
    {"os", "logging", "requests", "PlexServer", "Show", "Movie", "SMovie", "SShow",
     "Availability", "Media", "sonarr_service", "radarr_service", "cache",
     "CACHE_TIMEOUT", "logger", "is_tv_archive_folder", "is_movie_archive_folder",
     "check_streaming_availability", "get_plex_connection", "delete_media_from_plex",
     "get_plex_library", "_get_plex_library", "media_id", "plex", "key", "media_item"}

\* attributes of the module services.file_service
FileServiceAttrs == {"os", "shutil", "logging", "logger", "move_to_archive"}

\* delete_media_from_plex: (success, calls).  fetchItem raises for an unknown
\* key, media_item.delete() removes the item (or raises when the server
\* refuses), then line 123 evaluates the name sona before returning True;
\* every exception is caught and turned into (False, message).
delete_media_from_plex(media_id, items, connected, deleteRefused) ==
    IF ~connected THEN [success |-> FALSE, calls |-> {}]
    ELSE IF media_id \notin items THEN [success |-> FALSE, calls |-> {}]
    ELSE IF deleteRefused THEN [success |-> FALSE, calls |-> {}]
    ELSE [success |-> "sona" \in PlexServiceNames,
          calls   |-> {Call("plex.delete", "", media_id)}]

\* lines 714-719: the allow-list of the item's type
ValidArchiveFolders(type, st) ==
    IF type = "tv" THEN st.TV_ARCHIVE_FOLDERS ELSE st.MOVIE_ARCHIVE_FOLDERS

InAllowListAny(selected, valid) == TRUE

\* line 732
InAllowList(selected, valid) == selected \in valid

FilePathAssumed(item) == TRUE

\* line 737
FilePathKnown(item) == ~Falsy(item.filePath)

\* lines 743-746: file_service.move_sonarr_series / file_service.move_radarr_movie.
\* The attribute is looked up on the module first; a missing attribute raises
\* AttributeError out of the handler.
MoveFunction(type) == IF type = "tv" THEN "move_sonarr_series" ELSE "move_radarr_movie"
MoveManager(type)  == IF type = "tv" THEN "sonarr.move" ELSE "radarr.move"
MoveRefused(type)  == IF type = "tv" THEN "sonarr.move.failed" ELSE "radarr.move.failed"

InvalidateCalls ==
    {Call("cache.delete", "dashboard_data", 0), Call("cache.delete", "plex_media_data_full", 0)}

\* handle_action: the response and the mutations performed
handle_action(req, st, items, connected, deleteRefused, moveOk) ==
    IF req.action = "delete" THEN
        LET d == delete_media_from_plex(req.media_id, items, connected, deleteRefused)
        IN  IF d.success
            THEN [resp |-> Response("success", 200), calls |-> d.calls \cup InvalidateCalls]
            ELSE [resp |-> Response("error", 500), calls |-> d.calls]
    ELSE IF req.action = "archive" THEN
        LET valid == ValidArchiveFolders(req.type, st)
        IN  IF Falsy(req.archivePath) THEN [resp |-> Response("error", 400), calls |-> {}]
            ELSE IF valid = {} THEN [resp |-> Response("error", 400), calls |-> {}]
            ELSE IF ~InAllowList(req.archivePath, valid)
                 THEN [resp |-> Response("error", 400), calls |-> {}]
            ELSE IF ~FilePathKnown(req) THEN [resp |-> Response("error", 404), calls |-> {}]
            ELSE IF MoveFunction(req.type) \notin FileServiceAttrs
                 THEN [resp |-> Response("exception", 500), calls |-> {}]
            ELSE IF ~moveOk
                 THEN [resp  |-> Response("error", 500),
                       calls |-> {Call(MoveRefused(req.type), req.archivePath, req.media_id)}]
            ELSE [resp  |-> Response("success", 200),
                  calls |-> {Call(MoveManager(req.type), req.archivePath, req.media_id)}
                            \cup InvalidateCalls]
    ELSE [resp |-> Response("error", 400), calls |-> {}]

\* the effect of the performed mutations on the cache and on the media server
ApplyCacheCalls(c, calls) ==
    [k \in CacheKeys |-> IF Call("cache.delete", k, 0) \in calls THEN NoEntry(k) ELSE c[k]]

ApplyPlexCalls(items, calls) ==
    {i \in items : Call("plex.delete", "", i) \notin calls}

HandleAction ==
    \E req \in ActionRequests :
      \E up \in Upstream(req) :
        LET h == handle_action(req, settings, plexItems,
                               up.connected, up.deleteRefused, up.moveOk)
        IN  /\ lastReq' = req
            /\ lastResp' = h.resp
            /\ lastCalls' = h.calls
            /\ cache' = ApplyCacheCalls(cache, h.calls)
            /\ plexItems' = ApplyPlexCalls(plexItems, h.calls)
            /\ UNCHANGED settings
            /\ UNCHANGED <<syncVars, ruleVars, snapVars, dashVars, setVars>>

\* a scheduler pass of perform_full_sync between two requests
RunSync ==
    /\ \E connected \in BOOLEAN, stageFails \in BOOLEAN :
          cache' = perform_full_sync(cache, now, plexItems, connected, stageFails)
    /\ lastReq' = NoRequest /\ lastResp' = NoResponse /\ lastCalls' = {}
    /\ UNCHANGED <<plexItems, settings>>
    /\ UNCHANGED <<syncVars, ruleVars, snapVars, dashVars, setVars>>

\* the allow-lists load_settings() resolves change (environment or POST /api/settings)
ArchiveFolderSettings ==
    [TV_ARCHIVE_FOLDERS : {{}, {"/archive/tv"}},
     MOVIE_ARCHIVE_FOLDERS : {{}, {"/archive/movies"}}]

SettingsChange ==
    /\ \E st \in ArchiveFolderSettings : settings' = st /\ st # settings
    /\ lastReq' = NoRequest /\ lastResp' = NoResponse /\ lastCalls' = {}
    /\ UNCHANGED <<cache, plexItems>>
    /\ UNCHANGED <<syncVars, ruleVars, snapVars, dashVars, setVars>>

----------------------------------------------------------------------------
(* analysis_service._cache_media_rules *)

NoDate == -1                         \* lastWatched is None

RuleNames ==
    {"keep-forever", "archive-ended", "delete-if-streaming", "archive-after-6months",
     "delete-after-watched", "auto-manage"}

\* sizes are in hundredths of a gigabyte (the snapshot rounds to two decimals)
GB == 100

\* settings.get(key, default)
SettingsGet(st, key, default) == IF key \in DOMAIN st THEN st[key] ELSE default

WatchedBeforeOrAt(lastWatched, t, days) == 2 * lastWatched <= t - 2 * days

\* datetime.strptime(lastWatched, '%Y-%m-%d') < now - timedelta(days=days),
\* with now in half days and lastWatched a day number (midnight of that day)
WatchedBefore(lastWatched, t, days) == 2 * lastWatched < t - 2 * days

KeepForeverIfMonitored(item) == item.rule = "keep-forever" /\ item.rootFolderPath # NULL

\* line 19
KeepForever(item) == item.rule = "keep-forever"

MonitoredAlways(item) == FALSE

\* line 22
NotMonitored(item) == item.rootFolderPath = NULL

EndedShowAnySize(item) ==
    /\ item.type = "tv"
    /\ item.status \in {"ended", "Ended"}
    /\ item.rootFolderPath # NULL
    /\ item.rule \in {"archive-ended", "auto-manage"}

\* line 27
EndedShowOver8GB(item) ==
    /\ item.type = "tv"
    /\ item.size >= 8 * GB
    /\ item.status \in {"ended", "Ended"}
    /\ item.rootFolderPath # NULL
    /\ item.rule \in {"archive-ended", "auto-manage"}

OnStreamingWatched(item) ==
    item.rule = "delete-if-streaming" /\ item.streamingServices # <<>> /\ item.watchCount > 0

\* line 34
OnStreaming(item) == item.rule = "delete-if-streaming" /\ item.streamingServices # <<>>

\* lines 41-45
ArchiveAfterMonths(item, st, t) ==
    /\ item.lastWatched # NoDate
    /\ item.rule \in {"archive-after-6months", "auto-manage"}
    /\ WatchedBefore(item.lastWatched, t, SettingsGet(st, "archiveAfterMonths", 6) * 30)

\* lines 49-52
DeleteAfterWatched(item, st, t) ==
    /\ item.lastWatched # NoDate
    /\ item.watchCount > 0
    /\ item.rule \in {"delete-after-watched", "auto-manage"}
    /\ WatchedBefore(item.lastWatched, t, SettingsGet(st, "autoDeleteAfterDays", 30))

classify_item_delete_first(item, st, t) ==
    IF KeepForever(item) THEN [item EXCEPT !.status = "protected"]
    ELSE IF NotMonitored(item)
         THEN [item EXCEPT !.status = "Not Monitored",
                           !.reason = "Media not monitored in Sonarr or Radarr"]
    ELSE IF EndedShowOver8GB(item)
         THEN [item EXCEPT !.status = "candidate-archive",
                           !.reason = "TV show ended and size is over 8GB"]
    ELSE IF OnStreaming(item)
         THEN [item EXCEPT !.status = "candidate-delete",
                           !.reason = "Media status is available on streamingServices"]
    ELSE IF DeleteAfterWatched(item, st, t) THEN [item EXCEPT !.status = "candidate-delete"]
    ELSE IF ArchiveAfterMonths(item, st, t) THEN [item EXCEPT !.status = "candidate-archive"]
    ELSE item

\* the body of the loop, lines 17-55: the first rule that matches decides
classify_item(item, st, t) ==
    IF KeepForever(item) THEN [item EXCEPT !.status = "protected"]
    ELSE IF NotMonitored(item)
         THEN [item EXCEPT !.status = "Not Monitored",
                           !.reason = "Media not monitored in Sonarr or Radarr"]
    ELSE IF EndedShowOver8GB(item)
         THEN [item EXCEPT !.status = "candidate-archive",
                           !.reason = "TV show ended and size is over 8GB"]
    ELSE IF OnStreaming(item)
         THEN [item EXCEPT !.status = "candidate-delete",
                           !.reason = "Media status is available on streamingServices"]
    ELSE IF ArchiveAfterMonths(item, st, t) THEN [item EXCEPT !.status = "candidate-archive"]
    ELSE IF DeleteAfterWatched(item, st, t) THEN [item EXCEPT !.status = "candidate-delete"]
    ELSE item

_cache_media_rules_carry(list, st, t) ==
    [i \in 1..Len(list) |->
        IF i > 1 /\ KeepForever(list[i - 1])
        THEN [list[i] EXCEPT !.status = "protected"]
        ELSE classify_item(list[i], st, t)]

\* _cache_media_rules: one pass over the list, every item mutated in place
_cache_media_rules(list, st, t) ==
    [i \in 1..Len(list) |-> classify_item(list[i], st, t)]

\* the items a pass is exercised with
DaysAgo == {1, 30, 31, 180, 181}

ItemUniverse ==
    [type : ItemTypes,
     size : {5 * GB, 8 * GB, 9 * GB},
     lastWatched : {NoDate} \cup {Today - d : d \in DaysAgo},
     watchCount : {0, 1},
     status : {NULL, "active", "ended", "Ended"},
     rule : RuleNames \cup {NULL},
     streamingServices : {<<>>, <<"Netflix">>},
     rootFolderPath : {NULL, "/tv"},
     reason : {NULL}]

\* the items that may follow the first one in the list
CompanionItems ==
    {[type |-> "tv", size |-> 9 * GB, lastWatched |-> NoDate, watchCount |-> 0,
      status |-> "ended", rule |-> "auto-manage", streamingServices |-> <<>>,
      rootFolderPath |-> "/tv", reason |-> NULL],
     [type |-> "movie", size |-> 5 * GB, lastWatched |-> Today - 181, watchCount |-> 1,
      status |-> "active", rule |-> "keep-forever", streamingServices |-> <<"Netflix">>,
      rootFolderPath |-> NULL, reason |-> NULL]}

EmptySettings == [k \in {} |-> 0]

RuleSettings ==
    {EmptySettings, [archiveAfterMonths |-> 1, autoDeleteAfterDays |-> 1]}

RECURSIVE SeqsUpTo(_, _)
SeqsUpTo(S, n) ==
    IF n = 0 THEN {<<>>}
    ELSE LET shorter == SeqsUpTo(S, n - 1)
         IN  shorter \cup {Append(q, x) : q \in shorter, x \in S}

\* apply_rules_to_media -> _cache_media_rules
Classify ==
    /\ rule_pc = "input"
    /\ media_list' = _cache_media_rules(media_list, rule_settings, rule_now)
    /\ rule_pc' = "classified"
    /\ UNCHANGED <<input_list, rule_settings, rule_now, aggregate>>
    /\ UNCHANGED <<cache, syncVars, actionVars, snapVars, dashVars, setVars>>

\* a later pass over the list the first pass mutated in place, with the same
\* settings and at the same time
Reclassify ==
    /\ rule_pc = "classified"
    /\ input_list' = media_list
    /\ media_list' = _cache_media_rules(media_list, rule_settings, rule_now)
    /\ rule_pc' = "reclassified"
    /\ UNCHANGED <<rule_settings, rule_now, aggregate>>
    /\ UNCHANGED <<cache, syncVars, actionVars, snapVars, dashVars, setVars>>

candidates_delete_only(analyzed_media) ==
    SelectSeq(analyzed_media, LAMBDA item : item.status = "candidate-delete")

\* perform_full_sync, line 59: item.status and 'candidate' in item.status;
\* of the statuses an item can carry, two contain 'candidate'
candidates(analyzed_media) ==
    SelectSeq(analyzed_media,
              LAMBDA item : /\ item.status \notin {NULL, ""}
                            /\ item.status \in {"candidate-archive", "candidate-delete"})

\* sum(c['size'] for c in candidates), line 61
RECURSIVE potential_savings(_)
potential_savings(cands) ==
    IF cands = <<>> THEN 0 ELSE Head(cands).size + potential_savings(Tail(cands))

NoAggregate == [candidates |-> <<>>, potentialSavings |-> 0]

\* perform_full_sync, lines 122-125: the two entries of dashboard_data.  Sizes
\* are whole hundredths of a GB (plex_service rounds them, lines 211 and 280),
\* so round(potential_savings, 2) is the sum itself.
dashboard_aggregate(analyzed_media) ==
    [candidates |-> candidates(analyzed_media),
     potentialSavings |-> potential_savings(candidates(analyzed_media))]

\* perform_full_sync, lines 59-61 and 122-125, on the classified list
Publish ==
    /\ rule_pc = "classified"
    /\ aggregate' = dashboard_aggregate(media_list)
    /\ rule_pc' = "published"
    /\ UNCHANGED <<media_list, input_list, rule_settings, rule_now>>
    /\ UNCHANGED <<cache, syncVars, actionVars, snapVars, dashVars, setVars>>

----------------------------------------------------------------------------
(* plex_service._get_plex_library: the items of the snapshot *)

NoId == 0                            \* dict.get(title) found nothing

Titles == {"Dune", "dune"}

\* what the media server holds for one movie or show; lastViewedAt is an
\* instant, in half days
PlexEntries ==
    [type : {"movie", "show"},
     title : {"Dune"},
     size : {5 * GB, 16 * GB},
     lastViewedAt : {NoDate, 2 * (Today - 181) + 1, 2 * (Today - 1)},
     viewCount : {0, 1}]

\* a series as Sonarr holds it; rootFolderPath is NULL when the request for
\* it fails
SonarrSeries ==
    [title : Titles, id : {7}, rootFolderPath : {NULL, "/tv", "/archive/tv/"},
     status : {"continuing", "ended"}, sizeOnDisk : {5 * GB, 9 * GB, 12 * GB}]

\* a movie as Radarr holds it; rootFolderPath is the moviePath entry of the
\* cached summary
RadarrMovies ==
    [title : Titles, id : {7}, rootFolderPath : {NULL, "/movies", "/archive/movies"}]

Providers == {<<>>, <<"Netflix">>}

NoLibrary ==
    [entries |-> <<>>, sonarr |-> {}, radarr |-> {}, radarrCached |-> FALSE,
     TV_ARCHIVE_FOLDERS |-> {}, MOVIE_ARCHIVE_FOLDERS |-> {}, providers |-> <<>>]

\* one entry in the media server; only the manager of its type is populated
LibraryStates ==
    {[entries |-> <<e>>, sonarr |-> {}, radarr |-> r, radarrCached |-> rc,
      TV_ARCHIVE_FOLDERS |-> {}, MOVIE_ARCHIVE_FOLDERS |-> ma, providers |-> p] :
        e \in {x \in PlexEntries : x.type = "movie"},
        r \in {{}} \cup {{m} : m \in RadarrMovies},
        rc \in BOOLEAN,
        ma \in {{}, {"/archive/movies"}},
        p \in Providers}
    \cup
    {[entries |-> <<e>>, sonarr |-> s, radarr |-> {}, radarrCached |-> TRUE,
      TV_ARCHIVE_FOLDERS |-> ta, MOVIE_ARCHIVE_FOLDERS |-> {}, providers |-> p] :
        e \in {x \in PlexEntries : x.type = "show" /\ x.size = 5 * GB},
        s \in {{}} \cup {{m} : m \in SonarrSeries},
        ta \in {{}, {"/archive/tv"}},
        p \in Providers}

\* get_series_title_id_map().get(title) / get_movie_title_id_map().get(title)
TitleIdGet(records, title) ==
    IF \E r \in records : r.title = title
    THEN (CHOOSE r \in records : r.title = title).id
    ELSE NoId

\* sonarr_service.get_series_root_folder: None unless the series is found
get_series_root_folder(sonarr, series_id) ==
    IF \E s \in sonarr : s.id = series_id
    THEN (CHOOSE s \in sonarr : s.id = series_id).rootFolderPath
    ELSE NULL

\* os.path.normpath on the paths that occur
normpath(p) ==
    IF p = "/archive/tv/" THEN "/archive/tv"
    ELSE IF p = "/archive/movies/" THEN "/archive/movies"
    ELSE p

\* lines 12-25
is_tv_archive_folder(path, lib) ==
    /\ ~Falsy(path)
    /\ lib.TV_ARCHIVE_FOLDERS # {}
    /\ normpath(path) \in {normpath(f) : f \in lib.TV_ARCHIVE_FOLDERS}

\* lines 27-40
is_movie_archive_folder(path, lib) ==
    /\ ~Falsy(path)
    /\ lib.MOVIE_ARCHIVE_FOLDERS # {}
    /\ normpath(path) \in {normpath(f) : f \in lib.MOVIE_ARCHIVE_FOLDERS}

\* lastViewedAt.strftime('%Y-%m-%d'): the day of the instant
strftime(instant) == IF instant = NoDate THEN NoDate ELSE instant \div 2

\* line 191: cached_radarr_data.get(...) on a missing cache entry raises
MovieRaises(e, lib) ==
    TitleIdGet(lib.radarr, e.title) # NoId /\ ~lib.radarrCached

\* lines 187-194: '/' unless Radarr holds a path for the matched movie
MoviePath(e, lib) ==
    LET movie_id == TitleIdGet(lib.radarr, e.title)
        known == {m \in lib.radarr : m.id = movie_id /\ m.rootFolderPath # NULL}
    IN  IF movie_id # NoId /\ known # {}
        THEN (CHOOSE m \in known : TRUE).rootFolderPath
        ELSE "/"

\* lines 186-220; streamingServices is '' (here the empty list) up to 15 GB
MovieItem(e, lib) ==
    LET streaming_services == IF e.size > 15 * GB THEN lib.providers ELSE <<>>
    IN  [type |-> "movie", title |-> e.title, size |-> e.size,
         lastWatched |-> strftime(e.lastViewedAt), watchCount |-> e.viewCount,
         status |-> "active",
         rule |-> IF streaming_services # <<>> THEN "delete-if-streaming" ELSE NULL,
         streamingServices |-> streaming_services,
         rootFolderPath |-> MoviePath(e, lib),
         reason |-> NULL]

\* line 287
ShowStatus(spath, show_status, lib) ==
    IF is_tv_archive_folder(spath, lib) THEN "archive-ended" ELSE show_status

\* lines 223-288; size and status come from Sonarr, streamingServices is the
\* string 'TV Show under 10GB' (here a one-element list) below 10 GB
ShowItem(e, lib) ==
    LET sonarr_id == TitleIdGet(lib.sonarr, e.title)
        spath == get_series_root_folder(lib.sonarr, sonarr_id)
        series == {s \in lib.sonarr : s.id = sonarr_id}
        show_status == IF sonarr_id # NoId THEN (CHOOSE s \in series : TRUE).status ELSE NULL
        size_gb == IF sonarr_id # NoId THEN (CHOOSE s \in series : TRUE).sizeOnDisk ELSE 0
    IN  [type |-> "tv", title |-> e.title, size |-> size_gb,
         lastWatched |-> strftime(e.lastViewedAt), watchCount |-> e.viewCount,
         status |-> ShowStatus(spath, show_status, lib),
         rule |-> "auto-manage",
         streamingServices |-> IF size_gb >= 10 * GB THEN lib.providers
                               ELSE <<"TV Show under 10GB">>,
         rootFolderPath |-> spath,
         reason |-> NULL]

SnapshotRaises(lib) ==
    \E i \in 1..Len(lib.entries) :
        lib.entries[i].type = "movie" /\ MovieRaises(lib.entries[i], lib)

\* lines 183-289: all_media of the Media object returned with a connection
_get_plex_library(lib) ==
    [i \in 1..Len(lib.entries) |->
        IF lib.entries[i].type = "movie" THEN MovieItem(lib.entries[i], lib)
                                         ELSE ShowItem(lib.entries[i], lib)]

\* the snapshot is built and handed to the rule engine
BuildSnapshot ==
    /\ rule_pc = "source"
    /\ IF SnapshotRaises(library)
       THEN media_list' = <<>> /\ rule_pc' = "raised"
       ELSE media_list' = _get_plex_library(library) /\ rule_pc' = "input"
    /\ input_list' = media_list'
    /\ UNCHANGED <<rule_settings, rule_now, aggregate>>
    /\ UNCHANGED <<cache, syncVars, actionVars, snapVars, dashVars, setVars>>

----------------------------------------------------------------------------
(* app.get_dashboard_data and the callers of the snapshot builder *)

\* half the lifetime of a cache entry, in ticks: the step of the clock here
HalfLife == (CACHE_TIMEOUT \div TickSeconds) \div 2

NoDashboard == DashboardData({}, {})

NoDashResponse == [code |-> 0, kind |-> "none", data |-> NoDashboard]

\* bool(d) of a dict
DictTruthy(d) == DOMAIN d # {}

get_dashboard_data_empty(c, t) ==
    IF CacheHas(c, "dashboard_data", t) /\ DictTruthy(CacheGet(c, "dashboard_data", t))
    THEN [code |-> 200, kind |-> "dashboard", data |-> CacheGet(c, "dashboard_data", t)]
    ELSE [code |-> 200, kind |-> "dashboard", data |-> NoDashboard]

\* app.get_dashboard_data, lines 414-426
get_dashboard_data(c, t) ==
    IF CacheHas(c, "dashboard_data", t) /\ DictTruthy(CacheGet(c, "dashboard_data", t))
    THEN [code |-> 200, kind |-> "dashboard", data |-> CacheGet(c, "dashboard_data", t)]
    ELSE [code |-> 202, kind |-> "gathering", data |-> NoDashboard]

\* what a caller of the snapshot builder went through: whether the builder
\* itself ran (no cached snapshot), what it returned ("media": a Media object,
\* "list": the bare list), the exception raised inside the caller, and whether
\* a dashboard aggregate was published
NoRun ==
    [caller |-> "none", connected |-> FALSE, fetched |-> FALSE, snapshot |-> "none",
     raised |-> "none", published |-> FALSE,
     dry_run |-> FALSE, enabled |-> FALSE, victims |-> {}, calls |-> {}]

\* perform_full_sync, lines 49-50 and 181
SyncRun(c, t, items, connected, stageFails) ==
    LET lib == get_plex_library(c, t, items, connected)
    IN  [NoRun EXCEPT
            !.caller = "sync", !.connected = connected,
            !.fetched = ~CacheHas(c, "plex_media", t),
            !.snapshot = IF lib.data.isMedia THEN "media" ELSE "list",
            !.raised = IF ~lib.data.isMedia THEN "AttributeError"
                       ELSE IF stageFails THEN "Exception" ELSE "none",
            !.published = lib.data.isMedia /\ ~stageFails]

\* a scheduler run of perform_full_sync
DashSync ==
    /\ \E connected \in BOOLEAN, stageFails \in BOOLEAN :
          /\ cache' = perform_full_sync(cache, now, plexItems, connected, stageFails)
          /\ lastRun' = SyncRun(cache, now, plexItems, connected, stageFails)
    /\ dashResp' = NoDashResponse
    /\ UNCHANGED <<plexItems, settings, lastReq, lastResp, lastCalls>>
    /\ UNCHANGED <<syncVars, ruleVars, snapVars, setVars>>

\* GET /api/dashboard
GetDashboard ==
    /\ dashResp' = get_dashboard_data(cache, now)
    /\ lastRun' = NoRun
    /\ UNCHANGED cache
    /\ UNCHANGED <<syncVars, actionVars, ruleVars, snapVars, setVars>>

\* app.get_content_data, lines 573-580: the object get_plex_library returns is
\* handed to the rule engine as the list; iterating a Media object raises
\* TypeError, the bare list is iterated as an empty list
get_content_data(c, t, items, connected) ==
    LET lib == get_plex_library(c, t, items, connected)
        an  == apply_rules_to_media(lib.cache, t, {})
        hit == CacheHas(lib.cache, "analyzed_media", t)
    IN  [cache |-> IF lib.data.isMedia THEN lib.cache ELSE an.cache,
         run |-> [NoRun EXCEPT
                     !.caller = "content", !.connected = connected,
                     !.fetched = ~CacheHas(c, "plex_media", t),
                     !.snapshot = IF lib.data.isMedia THEN "media" ELSE "list",
                     !.raised = IF lib.data.isMedia /\ ~hit THEN "TypeError" ELSE "none"]]

\* GET /api/content
GetContent ==
    /\ \E connected \in BOOLEAN :
          LET g == get_content_data(cache, now, plexItems, connected)
          IN  cache' = g.cache /\ lastRun' = g.run
    /\ dashResp' = NoDashResponse
    /\ UNCHANGED <<plexItems, settings, lastReq, lastResp, lastCalls>>
    /\ UNCHANGED <<syncVars, ruleVars, snapVars, setVars>>

perform_cleanup_actions_ignoring_dry_run(c, t, items, connected, dry_run, enabled, victims, archiveReached) ==
    LET an == apply_rules_to_media(c, t, items)
        calls == UNION {delete_media_from_plex(v, items, TRUE, FALSE).calls : v \in victims \cap an.data}
    IN  [cache |-> an.cache,
         run |-> [NoRun EXCEPT !.caller = "cleanup", !.connected = connected,
                               !.dry_run = dry_run, !.enabled = enabled,
                               !.victims = victims, !.calls = calls]]

\* cleanup_service.perform_cleanup_actions: the builder is called directly
\* (line 38).  victims are the delete candidates of the classified list and
\* archiveReached tells whether it holds an archive candidate with a mapping.
\* In a live run the first delete candidate is deleted in the media server
\* before line 117 raises NameError, and so does line 79 for the first
\* archive candidate before any move; success_count stays 0, so no cache
\* entry is deleted (lines 120-124).  A dry run only logs.
perform_cleanup_actions(c, t, items, connected, dry_run, enabled, victims, archiveReached) ==
    LET ran == [NoRun EXCEPT !.caller = "cleanup", !.connected = connected,
                             !.dry_run = dry_run, !.enabled = enabled, !.victims = victims]
    IN  IF ~enabled /\ ~dry_run
        THEN [cache |-> c, run |-> ran]
        ELSE LET fresh == FetchPlexLibrary(items, connected)
             IN  IF ~fresh.isMedia
                 THEN [cache |-> c,
                       run |-> [ran EXCEPT !.fetched = TRUE, !.snapshot = "list",
                                           !.raised = "AttributeError"]]
                 ELSE LET an == apply_rules_to_media(c, t, fresh.all_media)
                          reached == IF dry_run THEN {} ELSE victims \cap an.data
                      IN  [cache |-> an.cache,
                           run |-> [ran EXCEPT
                                      !.fetched = TRUE, !.snapshot = "media",
                                      !.raised = IF ~dry_run /\ (reached # {} \/ archiveReached)
                                                 THEN "NameError" ELSE "none",
                                      !.calls = UNION {delete_media_from_plex(v, items, TRUE, FALSE).calls :
                                                            v \in reached}]]

\* the runs the cleanup is exercised with: live runs with automatic actions
\* disabled, dry runs, and live runs that reach no candidate they act on, an
\* archive candidate or a delete candidate
CleanupRuns ==
    {[connected |-> TRUE, dry_run |-> d, enabled |-> FALSE, victims |-> vs,
      archiveReached |-> FALSE] : d \in BOOLEAN, vs \in {{}} \cup {{v} : v \in MediaIds}}
    \cup
    {[connected |-> c, dry_run |-> d, enabled |-> ~d, victims |-> {},
      archiveReached |-> a] : c \in BOOLEAN, d \in BOOLEAN, a \in BOOLEAN}
    \cup
    {[connected |-> TRUE, dry_run |-> d, enabled |-> TRUE, victims |-> {v},
      archiveReached |-> FALSE] : v \in MediaIds, d \in BOOLEAN}

\* the daily cleanup job or POST /api/cleanup/trigger
Cleanup ==
    /\ \E run \in CleanupRuns :
          LET r == perform_cleanup_actions(cache, now, plexItems, run.connected, run.dry_run,
                                           run.enabled, run.victims, run.archiveReached)
          IN  /\ cache' = ApplyCacheCalls(r.cache, r.run.calls)
              /\ plexItems' = ApplyPlexCalls(plexItems, r.run.calls)
              /\ lastRun' = r.run
    /\ dashResp' = NoDashResponse
    /\ UNCHANGED <<settings, lastReq, lastResp, lastCalls>>
    /\ UNCHANGED <<syncVars, ruleVars, snapVars, setVars>>

\* half a cache lifetime passes
DashTick ==
    /\ now < MaxDashSteps * HalfLife
    /\ now' = now + HalfLife
    /\ lastRun' = NoRun /\ dashResp' = NoDashResponse
    /\ UNCHANGED <<cache, pc, resp, thread, outcome, job>>
    /\ UNCHANGED <<actionVars, ruleVars, snapVars, setVars>>

----------------------------------------------------------------------------
(* Settings: services/settings_service.py, config.py and the resolver of
   services/sync_service.py.  Strings are sequences of characters, a Python
   value is a record that names its type, a dict is a function on its keys. *)

PyNone    == [kind |-> "none", s |-> <<>>, l |-> <<>>, b |-> FALSE, n |-> 0]
PyStr(x)  == [kind |-> "str",  s |-> x,    l |-> <<>>, b |-> FALSE, n |-> 0]
PyList(x) == [kind |-> "list", s |-> <<>>, l |-> x,    b |-> FALSE, n |-> 0]
PyBool(x) == [kind |-> "bool", s |-> <<>>, l |-> <<>>, b |-> x,     n |-> 0]
PyInt(x)  == [kind |-> "int",  s |-> <<>>, l |-> <<>>, b |-> FALSE, n |-> x]

EmptyDict == [k \in {} |-> PyNone]

\* dict.update
DictUpdate(a, b) ==
    [k \in DOMAIN a \cup DOMAIN b |-> IF k \in DOMAIN b THEN b[k] ELSE a[k]]

\* str.split(sep)
RECURSIVE SplitFrom(_, _, _)
SplitFrom(str, sep, piece) ==
    IF str = <<>> THEN <<piece>>
    ELSE IF Head(str) = sep
         THEN <<piece>> \o SplitFrom(Tail(str), sep, <<>>)
         ELSE SplitFrom(Tail(str), sep, Append(piece, Head(str)))

\* str.strip()
RECURSIVE strip(_)
strip(str) ==
    IF str # <<>> /\ Head(str) = " " THEN strip(Tail(str))
    ELSE IF str # <<>> /\ str[Len(str)] = " " THEN strip(SubSeq(str, 1, Len(str) - 1))
    ELSE str

\* [v.strip() for v in value.split(sep) if v.strip()]
StrippedParts(str, sep) ==
    LET parts == SplitFrom(str, sep, <<>>)
    IN  SelectSeq([i \in 1..Len(parts) |-> strip(parts[i])], LAMBDA v : v # <<>>)

\* the process environment: a variable is unset or holds a string
Unset == [set |-> FALSE, raw |-> <<>>]
EnvStr(x) == [set |-> TRUE, raw |-> x]

ENV_KEYS_TO_MERGE == {"PLEX_URL", "TV_ARCHIVE_FOLDERS"}
EnvNames == ENV_KEYS_TO_MERGE \cup {"ARCHIVE_MAPPINGS_ENV"}

\* settings_service.get_default_settings, on the keys followed
get_default_settings ==
    [k \in {"enableAutoActions", "archiveMappings", "PLEX_URL", "TV_ARCHIVE_FOLDERS"} |->
        CASE k = "enableAutoActions" -> PyBool(FALSE)
          [] k = "archiveMappings" -> PyList(<<>>)
          [] k = "PLEX_URL" -> PyStr(<<>>)
          [] k = "TV_ARCHIVE_FOLDERS" -> PyList(<<>>)]

\* the files the three resolvers open
DataFile == "data/settings.json"
CwdFile  == "settings.json"
UpFile   == "../../settings.json"

\* what a path holds: nothing, a JSON object, text that is not JSON (the
\* empty or half-written file included), JSON that is not an object (null),
\* or a file that cannot be opened for reading
NoObject(kind) == [kind |-> kind, obj |-> EmptyDict]

Absent == NoObject("absent")

json_dump_over_defaults(d) ==
    [kind |-> "object", obj |-> DictUpdate(get_default_settings, d)]

\* json.dump(settings_data, f) followed by the close of the file
json_dump(d) == [kind |-> "object", obj |-> d]

\* open(path, 'r') and json.load(f): the exception raised or the value read
json_load(doc) ==
    CASE doc.kind = "absent"     -> [raised |-> "FileNotFoundError", value |-> EmptyDict, isDict |-> FALSE]
      [] doc.kind = "unreadable" -> [raised |-> "PermissionError", value |-> EmptyDict, isDict |-> FALSE]
      [] doc.kind \in {"invalid", "truncated"} ->
                                    [raised |-> "JSONDecodeError", value |-> EmptyDict, isDict |-> FALSE]
      [] doc.kind = "notobject"  -> [raised |-> "none", value |-> EmptyDict, isDict |-> FALSE]
      [] doc.kind = "object"     -> [raised |-> "none", value |-> doc.obj, isDict |-> TRUE]

\* load_settings, lines 56-63
env_settings(env) ==
    [k \in {e \in ENV_KEYS_TO_MERGE : env[e].set} |->
        IF k \in {"TV_ARCHIVE_FOLDERS"} THEN PyList(StrippedParts(env[k].raw, ","))
        ELSE PyStr(env[k].raw)]

is_value_present_truthy(user_value) ==
    user_value \notin {PyNone, PyStr(<<>>), PyList(<<>>), PyBool(FALSE), PyInt(0)}

\* load_settings, line 87: user_value not in [None, "", []]
is_value_present(user_value) ==
    user_value \notin {PyNone, PyStr(<<>>), PyList(<<>>)}

\* load_settings, lines 76-90
merge_settings(env, user_settings) ==
    LET present == {k \in DOMAIN user_settings : is_value_present(user_settings[k])}
    IN  DictUpdate(DictUpdate(get_default_settings, env_settings(env)),
                   [k \in present |-> user_settings[k]])

\* settings_service.load_settings, lines 48-97: what it returns or raises, and
\* the file it leaves (line 95 writes the merge when there was no file)
load_settings(env, doc, bootstrapFails) ==
    LET read == IF doc.kind # "absent" THEN json_load(doc)
                ELSE [raised |-> "none", value |-> EmptyDict, isDict |-> TRUE]
    IN  IF read.raised \in {"FileNotFoundError", "JSONDecodeError"}
        THEN [raised |-> "none", ret |-> merge_settings(env, EmptyDict), doc |-> doc]
        ELSE IF read.raised # "none"
        THEN [raised |-> read.raised, ret |-> EmptyDict, doc |-> doc]
        ELSE IF ~read.isDict
        THEN [raised |-> "AttributeError", ret |-> EmptyDict, doc |-> doc]
        ELSE LET final_settings == merge_settings(env, read.value)
             IN  [raised |-> "none", ret |-> final_settings,
                  doc |-> IF doc.kind # "absent" \/ bootstrapFails THEN doc
                          ELSE json_dump(final_settings)]

\* an archive mapping {"type", "source", "destination"}, written type|source|destination
MappingEntry(type, source, destination) ==
    type \o <<"|">> \o source \o <<"|">> \o destination

\* config._load_mappings_from_env, lines 9-40
_load_mappings_from_env(env) ==
    LET mappings_str == env["ARCHIVE_MAPPINGS_ENV"]
        raw_mappings == StrippedParts(mappings_str.raw, ";")
        Parts(m) == LET p == SplitFrom(m, "|", <<>>) IN [i \in 1..Len(p) |-> strip(p[i])]
        Valid(m) == /\ Len(Parts(m)) = 3
                    /\ Parts(m)[1] \in {<<"tv">>, <<"movie">>}
                    /\ Parts(m)[2] # <<>>
                    /\ Parts(m)[3] # <<>>
        valid == SelectSeq(raw_mappings, Valid)
    IN  IF ~mappings_str.set \/ mappings_str.raw = <<>> THEN <<>>
        ELSE [i \in 1..Len(valid) |->
                 MappingEntry(Parts(valid[i])[1], Parts(valid[i])[2], Parts(valid[i])[3])]

\* config.get_default_settings, on the keys followed
config_get_default_settings ==
    [autoDeleteAfterDays |-> PyInt(30), archiveAfterMonths |-> PyInt(6),
     enableAutoActions |-> PyBool(FALSE), archiveMappings |-> PyList(<<>>)]

\* config.load_settings, lines 50-73
config_load_settings(env, doc) ==
    LET env_mappings == _load_mappings_from_env(env)
        settings0 == IF env_mappings # <<>>
                     THEN [config_get_default_settings EXCEPT !.archiveMappings = PyList(env_mappings)]
                     ELSE config_get_default_settings
        read == json_load(doc)
    IN  IF read.raised \in {"FileNotFoundError", "JSONDecodeError"}
        THEN [raised |-> "none", ret |-> settings0]
        ELSE IF read.raised # "none" THEN [raised |-> read.raised, ret |-> EmptyDict]
        ELSE IF ~read.isDict THEN [raised |-> "TypeError", ret |-> EmptyDict]
        ELSE [raised |-> "none", ret |-> DictUpdate(settings0, read.value)]

\* sync_service.get_default_settings, on the keys followed
sync_get_default_settings ==
    [autoDeleteAfterDays |-> PyInt(30), archiveAfterMonths |-> PyInt(6),
     enableAutoActions |-> PyBool(FALSE), archiveMappings |-> PyList(<<>>)]

\* sync_service.load_settings, lines 19-28
sync_load_settings(doc) ==
    LET read == json_load(doc)
    IN  IF read.raised \in {"FileNotFoundError", "JSONDecodeError"}
        THEN [raised |-> "none", ret |-> sync_get_default_settings]
        ELSE IF read.raised # "none" THEN [raised |-> read.raised, ret |-> EmptyDict]
        ELSE IF ~read.isDict THEN [raised |-> "TypeError", ret |-> EmptyDict]
        ELSE [raised |-> "none", ret |-> DictUpdate(sync_get_default_settings, read.value)]

\* the values a client posts under a key
UserValues ==
    {PyNone, PyStr(<<>>), PyList(<<>>), PyBool(FALSE), PyInt(0),
     PyStr(<<"u">>), PyList(<< <<"u">> >>)}


RuleObject == [archiveAfterMonths |-> PyInt(1), autoDeleteAfterDays |-> PyInt(1)]

CleanupObject ==
    [enableAutoActions |-> PyBool(TRUE),
     archiveMappings |-> PyList(<<MappingEntry(<<"tv">>, <<"p">>, <<"q">>)>>)]

\* the settings objects posted: no key, one of the two above, or one key: a
\* key with a default only, one read from the environment as a string, one
\* read from it as a list, and one that has neither
UserObjects ==
    {EmptyDict, RuleObject, CleanupObject}
    \cup {[k \in {key} |-> v] :
             key \in {"enableAutoActions", "PLEX_URL", "TV_ARCHIVE_FOLDERS", "archiveAfterMonths"},
             v \in UserValues}

\* the environments the process is started in
Environments ==
    {[k \in EnvNames |->
         CASE k = "PLEX_URL" -> url
           [] k = "TV_ARCHIVE_FOLDERS" -> folders
           [] k = "ARCHIVE_MAPPINGS_ENV" -> mappings] :
     url \in {Unset, EnvStr(<<>>), EnvStr(<<"a">>)},
     folders \in {Unset, EnvStr(<<>>), EnvStr(<<"a">>), EnvStr(<<" ", ",">>),
                  EnvStr(<<"a", ",", " ", "b">>)},
     mappings \in {Unset,
                   EnvStr(<<"tv", "|", "p", "|", "q">>),
                   EnvStr(<<"x", "|", "p", "|", "q", ";", "tv", "|", "p">>)}}

NoSave == [active |-> FALSE, data |-> EmptyDict]

NoOp ==
    [op |-> "none", arg |-> EmptyDict, ret |-> EmptyDict, ok |-> FALSE, raised |-> "none",
     before |-> Absent, during |-> FALSE]

\* settings_service.save_settings, lines 141-166: open(SETTINGS_FILE, 'w')
\* empties the file, or fails and False is returned (lines 170-172)
SaveOpen ==
    /\ ~saving.active
    /\ \E settings_data \in UserObjects, openFails \in BOOLEAN :
          IF openFails
          THEN /\ lastOp' = [NoOp EXCEPT !.op = "save"]
               /\ UNCHANGED <<files, saving>>
          ELSE /\ files' = [files EXCEPT ![DataFile] = NoObject("truncated")]
               /\ saving' = [active |-> TRUE, data |-> settings_data]
               /\ lastOp' = [NoOp EXCEPT !.op = "open", !.arg = settings_data]
    /\ UNCHANGED environ
    /\ UNCHANGED <<cache, syncVars, actionVars, ruleVars, snapVars, dashVars>>

\* save_settings, lines 167-172: json.dump writes the object and True is
\* returned, or the write fails and False is returned
SaveDump ==
    /\ saving.active
    /\ \E writeFails \in BOOLEAN :
          /\ files' = [files EXCEPT ![DataFile] =
                          IF writeFails THEN NoObject("truncated") ELSE json_dump(saving.data)]
          /\ lastOp' = [NoOp EXCEPT !.op = "save", !.arg = saving.data, !.ok = ~writeFails]
    /\ saving' = NoSave
    /\ UNCHANGED environ
    /\ UNCHANGED <<cache, syncVars, actionVars, ruleVars, snapVars, dashVars>>

\* settings_service.load_settings, called by GET and POST /api/settings
Load ==
    /\ \E bootstrapFails \in BOOLEAN :
          LET r == load_settings(environ, files[DataFile], bootstrapFails)
          IN  /\ files' = [files EXCEPT ![DataFile] = r.doc]
              /\ lastOp' = [NoOp EXCEPT !.op = "load", !.ret = r.ret, !.raised = r.raised,
                                        !.ok = (r.raised = "none"),
                                        !.before = files[DataFile], !.during = saving.active]
    /\ UNCHANGED <<environ, saving>>
    /\ UNCHANGED <<cache, syncVars, actionVars, ruleVars, snapVars, dashVars>>

\* config.load_settings, called by get_content_data and perform_cleanup_actions
ConfigLoad ==
    /\ LET r == config_load_settings(environ, files[CwdFile])
       IN  lastOp' = [NoOp EXCEPT !.op = "config_load", !.ret = r.ret, !.raised = r.raised,
                                  !.ok = (r.raised = "none"),
                                  !.before = files[CwdFile], !.during = saving.active]
    /\ UNCHANGED <<environ, files, saving>>
    /\ UNCHANGED <<cache, syncVars, actionVars, ruleVars, snapVars, dashVars>>

\* sync_service.load_settings, called by perform_full_sync (line 54)
SyncLoad ==
    /\ LET r == sync_load_settings(files[UpFile])
       IN  lastOp' = [NoOp EXCEPT !.op = "sync_load", !.ret = r.ret, !.raised = r.raised,
                                  !.ok = (r.raised = "none"),
                                  !.before = files[UpFile], !.during = saving.active]
    /\ UNCHANGED <<environ, files, saving>>
    /\ UNCHANGED <<cache, syncVars, actionVars, ruleVars, snapVars, dashVars>>

----------------------------------------------------------------------------
InitAction ==
    /\ plexItems = MediaIds
    /\ settings = [TV_ARCHIVE_FOLDERS |-> {}, MOVIE_ARCHIVE_FOLDERS |-> {}]
    /\ lastReq = NoRequest
    /\ lastResp = NoResponse
    /\ lastCalls = {}

InitRules ==
    /\ media_list = <<>>
    /\ input_list = <<>>
    /\ rule_settings = <<>>
    /\ rule_now = 0
    /\ rule_pc = "input"
    /\ aggregate = NoAggregate

InitSyncVars ==
    /\ now = 0
    /\ pc = [r \in Requests |-> "idle"]
    /\ resp = [r \in Requests |-> 0]
    /\ thread = [r \in Requests |-> "none"]
    /\ outcome = [r \in Requests |-> "none"]
    /\ job = [j \in Jobs |-> "waiting"]

InitSnap == library = NoLibrary

InitDash ==
    /\ lastRun = NoRun
    /\ dashResp = NoDashResponse

\* no environment variable set and no settings file written
InitSet ==
    /\ environ = [k \in EnvNames |-> Unset]
    /\ files = [f \in {DataFile, CwdFile, UpFile} |-> Absent]
    /\ saving = NoSave
    /\ lastOp = NoOp

InitSync ==
    /\ cache = EmptyCache
    /\ InitSyncVars /\ InitAction /\ InitRules /\ InitSnap /\ InitDash /\ InitSet

NextSync ==
    \/ \E r \in Requests : TriggerCheck(r)
    \/ \E r \in Requests : TriggerSet(r)
    \/ \E r \in Requests : TriggerStart(r)
    \/ \E r \in Requests : TriggerStartFails(r)
    \/ \E r \in Requests : SyncBody(r)
    \/ \E r \in Requests : SyncFinally(r)
    \/ \E j \in Jobs : JobStart(j)
    \/ \E j \in Jobs : JobEnd(j)
    \/ Tick

SpecSync == InitSync /\ [][NextSync]_vars

NextAction ==
    \/ HandleAction
    \/ RunSync
    \/ SettingsChange

SpecAction == InitSync /\ [][NextAction]_vars

\* a pass over a list not yet classified, at midnight or at noon of Today
InitRuleInput ==
    /\ \E first \in ItemUniverse, rest \in SeqsUpTo(CompanionItems, MaxItems - 1) :
          media_list = <<first>> \o rest
    /\ input_list = media_list
    /\ rule_settings \in RuleSettings
    /\ rule_now \in {2 * Today, 2 * Today + 1}
    /\ rule_pc = "input"
    /\ aggregate = NoAggregate

InitRuleSpec ==
    cache = EmptyCache /\ InitSyncVars /\ InitAction /\ InitRuleInput /\ InitSnap /\ InitDash /\ InitSet

NextRules ==
    \/ Classify
    \/ Publish
    \/ Reclassify

SpecRules == InitRuleSpec /\ [][NextRules]_vars

\* a snapshot of one media-server entry, then a pass over it
InitSnapshotInput ==
    /\ library \in LibraryStates
    /\ media_list = <<>>
    /\ input_list = <<>>
    /\ rule_settings \in RuleSettings
    /\ rule_now \in {2 * Today, 2 * Today + 1}
    /\ rule_pc = "source"
    /\ aggregate = NoAggregate

InitSnapshot ==
    cache = EmptyCache /\ InitSyncVars /\ InitAction /\ InitSnapshotInput /\ InitDash /\ InitSet

NextSnapshot ==
    \/ BuildSnapshot
    \/ Classify

SpecSnapshot == InitSnapshot /\ [][NextSnapshot]_vars

NextDashboard ==
    \/ DashSync
    \/ GetDashboard
    \/ GetContent
    \/ Cleanup
    \/ DashTick

SpecDashboard == InitSync /\ [][NextDashboard]_vars

\* the service started in some environment, with a settings file that is
\* absent, damaged or unreadable; config.py and sync_service.py find either
\* no file at their paths or one written by hand
InitSetInput ==
    /\ environ \in Environments
    /\ \E data \in {NoObject(k) : k \in {"absent", "invalid", "notobject", "unreadable"}},
          other \in {Absent, json_dump([archiveAfterMonths |-> PyInt(3)])} :
          files = [f \in {DataFile, CwdFile, UpFile} |-> IF f = DataFile THEN data ELSE other]
    /\ saving = NoSave
    /\ lastOp = NoOp

InitSettings ==
    /\ cache = EmptyCache
    /\ InitSyncVars /\ InitAction /\ InitRules /\ InitSnap /\ InitDash /\ InitSetInput

NextSettings ==
    \/ SaveOpen
    \/ SaveDump
    \/ Load
    \/ ConfigLoad
    \/ SyncLoad

SpecSettings == InitSettings /\ [][NextSettings]_vars

\* the handler of an accepted request and its worker thread keep running
FairSpecSync ==
    /\ SpecSync
    /\ \A r \in Requests :
          /\ WF_vars(TriggerSet(r))
          /\ WF_vars(TriggerStart(r) \/ TriggerStartFails(r))
          /\ WF_vars(SyncBody(r))
          /\ WF_vars(SyncFinally(r))

----------------------------------------------------------------------------
(* Claims on the manual sync trigger *)

GuardStored == cache["is_syncing"].present

ManualInFlight == {r \in Requests : thread[r] = "running"}

AnySyncInFlight ==
    \/ \E r \in Requests : thread[r] = "running"
    \/ \E j \in Jobs : job[j] = "running"

\* C1: while the guard has not yet expired (no tick has passed), concurrently
\* handled triggers never leave two manually triggered syncs in flight, and two
\* answered triggers are never both accepted.
C1_SingleFlight ==
    now = 0 =>
        /\ Cardinality(ManualInFlight) <= 1
        /\ Cardinality({r \in Requests : resp[r] = 202}) <= 1

\* C2: a trigger whose guard check happens while any perform_full_sync is in
\* flight (scheduler job or manual thread) is answered 429.
C2_RejectedWhileSyncing ==
    [][\A r \in Requests :
          (pc[r] = "idle" /\ pc'[r] # "idle" /\ AnySyncInFlight) => resp'[r] = 429]_vars

\* every request handler and every triggered worker thread is at rest
Quiescent ==
    \A r \in Requests : pc[r] \in {"idle", "done"} /\ thread[r] \in {"none", "ended"}

\* C3: once no trigger handler and no triggered thread is running the guard
\* entry is gone from the cache, and after every accepted trigger (202) the
\* guard entry is eventually gone.
C3_GuardCleared ==
    /\ [](Quiescent => ~GuardStored)
    /\ \A r \in Requests : (resp[r] = 202) ~> ~GuardStored

\* an accepted trigger whose sync raised has ended and the guard is gone
C3_Witness ==
    \E r \in Requests :
        /\ resp[r] = 202 /\ thread[r] = "ended" /\ outcome[r] = "raised"
        /\ Quiescent /\ ~GuardStored

----------------------------------------------------------------------------
(* Claims on the action executor.  lastReq, lastResp and lastCalls describe *)
(* the handle_action call that produced the current state, if one did.      *)

MoveOps   == {"sonarr.move", "radarr.move", "sonarr.move.failed", "radarr.move.failed"}
EffectOps == {"plex.delete", "sonarr.move", "radarr.move", "cache.delete"}

MoveCalls(calls)   == {c \in calls : c.op \in MoveOps}
EffectCalls(calls) == {c \in calls : c.op \in EffectOps}

\* a precondition of the requested action is missing
MissingPrecondition(req, st) ==
    \/ req.action \notin {"delete", "archive"}
    \/ /\ req.action = "archive"
       /\ \/ Falsy(req.archivePath)
          \/ ValidArchiveFolders(req.type, st) = {}
          \/ req.archivePath \notin ValidArchiveFolders(req.type, st)
          \/ Falsy(req.filePath)

\* C4: an archive request whose archivePath is not in the allow-list of the
\* item's type is answered with a structured error and invokes no move.
C4_ArchiveOutsideAllowListRejected ==
    (lastReq.action = "archive"
        /\ lastReq.archivePath \notin ValidArchiveFolders(lastReq.type, settings))
    => (lastResp.status = "error" /\ MoveCalls(lastCalls) = {})

\* a tv item sent to the movie archive folder, everything else in order
C4_Witness ==
    /\ lastReq.action = "archive" /\ lastReq.type = "tv"
    /\ lastReq.archivePath = "/archive/movies"
    /\ settings.TV_ARCHIVE_FOLDERS = {"/archive/tv"}
    /\ settings.MOVIE_ARCHIVE_FOLDERS = {"/archive/movies"}
    /\ ~Falsy(lastReq.filePath)
    /\ lastResp = Response("error", 400)
    /\ lastCalls = {}

\* C5: a request with a missing precondition is answered with an error and
\* has performed no deletion, no move and no cache deletion.
C5_FailsClosed ==
    (lastReq.action # "none" /\ MissingPrecondition(lastReq, settings))
    => (lastResp.status = "error" /\ lastCalls = {})

\* an archive request that lacks only the file path, with populated caches
C5_Witness ==
    /\ lastReq.action = "archive"
    /\ lastReq.archivePath \in ValidArchiveFolders(lastReq.type, settings)
    /\ Falsy(lastReq.filePath)
    /\ lastResp = Response("error", 404)
    /\ CacheHas(cache, "dashboard_data", now) /\ CacheHas(cache, "plex_media", now)
    /\ plexItems = MediaIds

\* C6: when the media server removed the item for a delete action, the action
\* returns success and neither the dashboard entry nor the cached snapshot
\* (the entry get_plex_library reads) is left in the cache.
C6_DeleteInvalidatesCaches ==
    (lastReq.action = "delete" /\ Call("plex.delete", "", lastReq.media_id) \in lastCalls)
    => /\ lastResp.status = "success"
       /\ ~CacheHas(cache, "dashboard_data", now)
       /\ ~CacheHas(cache, "plex_media", now)

\* C7: an archive request that passes every validation invokes the move of
\* the manager of its type with the selected destination, and when the move
\* succeeded the action returns success with both cache entries absent.
C7_ArchiveInvokesMove ==
    (lastReq.action = "archive" /\ ~MissingPrecondition(lastReq, settings))
    => /\ \E c \in MoveCalls(lastCalls) :
             /\ c.op \in {MoveManager(lastReq.type), MoveRefused(lastReq.type)}
             /\ c.key = lastReq.archivePath
       /\ (\E c \in lastCalls : c.op = MoveManager(lastReq.type))
             => /\ lastResp.status = "success"
                /\ ~CacheHas(cache, "dashboard_data", now)
                /\ ~CacheHas(cache, "plex_media", now)

\* C8: a delete or archive action that reports a failure has changed nothing
\* upstream and has invalidated no cache entry.
C8_FailureMeansNoEffect ==
    (lastReq.action \in {"delete", "archive"} /\ lastResp.status # "success")
    => EffectCalls(lastCalls) = {}

----------------------------------------------------------------------------
(* Claims on the rule engine *)

Classified == rule_pc = "classified"

\* C9: after a pass every item whose rule is keep-forever has status protected.
C9_KeepForeverProtected ==
    Classified =>
        \A i \in 1..Len(media_list) :
            input_list[i].rule = "keep-forever" => media_list[i].status = "protected"

\* a keep-forever item that no library manager tracks and that is old enough
\* for the archive and delete rules
C9_Witness ==
    /\ Classified
    /\ input_list[1].rule = "keep-forever"
    /\ input_list[1].rootFolderPath = NULL
    /\ input_list[1].lastWatched = Today - 181
    /\ input_list[1].watchCount = 1
    /\ input_list[1].streamingServices # <<>>
    /\ media_list[1].status = "protected"

\* C10 as stated: after a pass every item whose rootFolderPath is null has the
\* not-monitored status, whatever its rule.
C10_NullRootNotMonitored ==
    Classified =>
        \A i \in 1..Len(media_list) :
            input_list[i].rootFolderPath = NULL => media_list[i].status = "Not Monitored"

\* C10 amended: after a pass every item whose rootFolderPath is null and whose
\* rule is not keep-forever has the not-monitored status.
C10_NullRootNotMonitoredUnlessKept ==
    Classified =>
        \A i \in 1..Len(media_list) :
            (input_list[i].rootFolderPath = NULL /\ input_list[i].rule # "keep-forever")
            => /\ media_list[i].status = "Not Monitored"
               /\ media_list[i].reason = "Media not monitored in Sonarr or Radarr"

\* an untracked item that every later rule would have made a candidate
C10_Witness ==
    /\ Classified
    /\ input_list[1].rootFolderPath = NULL
    /\ input_list[1].rule = "delete-if-streaming"
    /\ input_list[1].streamingServices # <<>>
    /\ input_list[1].lastWatched = Today - 181
    /\ media_list[1].status = "Not Monitored"

----------------------------------------------------------------------------
(* Claims on the snapshot builder.  library.entries[i] is the media-server  *)
(* entry that input_list[i] was built from.                                 *)

SnapshotBuilt == rule_pc \in {"input", "classified"} /\ library # NoLibrary

\* the library manager of the entry's type
ManagerOf(lib, e) == IF e.type = "movie" THEN lib.radarr ELSE lib.sonarr

NoExactMatch(lib, e) == ~\E r \in ManagerOf(lib, e) : r.title = e.title

Candidate(item) == item.status \in {"candidate-archive", "candidate-delete"}

\* C11: an entry of the media server without an exact-title match in the
\* library manager of its type has a null rootFolderPath in the snapshot and,
\* once classified, is not-monitored and not a candidate.
C11_UnmatchedNotMonitored ==
    SnapshotBuilt =>
        \A i \in 1..Len(library.entries) :
            NoExactMatch(library, library.entries[i])
            => /\ input_list[i].rootFolderPath = NULL
               /\ Classified => /\ media_list[i].status = "Not Monitored"
                                /\ ~Candidate(media_list[i])

\* the item's rootFolderPath is a configured archive folder of its type
InArchiveFolder(lib, item) ==
    IF item.type = "tv" THEN is_tv_archive_folder(item.rootFolderPath, lib)
                        ELSE is_movie_archive_folder(item.rootFolderPath, lib)

\* C12: a snapshot item whose rootFolderPath is one of the configured archive
\* folders of its type carries the archived sentinel status and, once
\* classified, is neither candidate-archive nor candidate-delete.
C12_ArchivedNotReclassified ==
    SnapshotBuilt =>
        \A i \in 1..Len(input_list) :
            InArchiveFolder(library, input_list[i])
            => /\ input_list[i].status = "archive-ended"
               /\ Classified => ~Candidate(media_list[i])

----------------------------------------------------------------------------
(* Claims on the precedence of the rules *)

\* lastWatched lies more than the given number of days before the instant t
OlderThan(item, t, days) == item.lastWatched # NoDate /\ 2 * item.lastWatched < t - 2 * days

\* the status the documented precedence assigns
FirstMatchStatus(item, st, t) ==
    IF item.rule = "keep-forever" THEN "protected"
    ELSE IF item.rootFolderPath = NULL THEN "Not Monitored"
    ELSE IF /\ item.type = "tv" /\ item.status \in {"ended", "Ended"} /\ item.size >= 8 * GB
            /\ item.rule \in {"archive-ended", "auto-manage"}
         THEN "candidate-archive"
    ELSE IF item.rule = "delete-if-streaming" /\ item.streamingServices # <<>>
         THEN "candidate-delete"
    ELSE IF /\ item.rule \in {"archive-after-6months", "auto-manage"}
            /\ OlderThan(item, t, SettingsGet(st, "archiveAfterMonths", 6) * 30)
         THEN "candidate-archive"
    ELSE IF /\ item.rule \in {"delete-after-watched", "auto-manage"}
            /\ item.watchCount > 0
            /\ OlderThan(item, t, SettingsGet(st, "autoDeleteAfterDays", 30))
         THEN "candidate-delete"
    ELSE item.status

\* a tv item: auto-manage, ended, 9 GB, tracked, never watched
EndedNineGB(item) ==
    /\ item.type = "tv" /\ item.rule = "auto-manage" /\ item.status = "ended"
    /\ item.size = 9 * GB /\ item.rootFolderPath # NULL /\ item.lastWatched = NoDate

\* an auto-manage item old enough for the archive and for the delete rule
\* that no earlier rule matches
OldEnoughForBoth(item, st, t) ==
    /\ item.rule = "auto-manage" /\ item.rootFolderPath # NULL /\ item.type = "movie"
    /\ item.watchCount > 0
    /\ OlderThan(item, t, SettingsGet(st, "archiveAfterMonths", 6) * 30)
    /\ OlderThan(item, t, SettingsGet(st, "autoDeleteAfterDays", 30))

\* C13: after a pass every item has the status of the first rule whose
\* condition it satisfied, in the order keep-forever, null rootFolderPath,
\* ended show of 8 GB or more, delete-if-streaming, archive-after-months,
\* delete-after-watched; the ended 9 GB show and the item old enough for both
\* time rules are candidate-archive.
C13_FirstMatchWins ==
    Classified =>
        \A i \in 1..Len(media_list) :
            /\ media_list[i].status = FirstMatchStatus(input_list[i], rule_settings, rule_now)
            /\ EndedNineGB(input_list[i]) => media_list[i].status = "candidate-archive"
            /\ OldEnoughForBoth(input_list[i], rule_settings, rule_now)
                  => media_list[i].status = "candidate-archive"

\* a list holding an item old enough for both time rules and the ended show
C13_Witness ==
    /\ Classified
    /\ Len(media_list) = 2
    /\ OldEnoughForBoth(input_list[1], rule_settings, rule_now)
    /\ EndedNineGB(input_list[2])
    /\ media_list[1].status = "candidate-archive"
    /\ media_list[2].status = "candidate-archive"

\* C14 as stated: after a pass every item whose rule is delete-if-streaming
\* and whose streamingServices is not empty is candidate-delete.
C14_StreamingAlwaysDeleted ==
    Classified =>
        \A i \in 1..Len(media_list) :
            (input_list[i].rule = "delete-if-streaming"
                /\ input_list[i].streamingServices # <<>>)
            => media_list[i].status = "candidate-delete"

\* C14 amended: after a pass every item whose rule is delete-if-streaming,
\* whose streamingServices is not empty and whose rootFolderPath is not null
\* is candidate-delete, whatever its size, lastWatched and watchCount.
C14_StreamingDeletedWhenMonitored ==
    Classified =>
        \A i \in 1..Len(media_list) :
            (input_list[i].rule = "delete-if-streaming"
                /\ input_list[i].streamingServices # <<>>
                /\ input_list[i].rootFolderPath # NULL)
            => media_list[i].status = "candidate-delete"

\* a small, never watched, tracked item on a streaming service
C14_Witness ==
    /\ Classified
    /\ input_list[1].rule = "delete-if-streaming"
    /\ input_list[1].streamingServices # <<>>
    /\ input_list[1].rootFolderPath # NULL
    /\ input_list[1].size = 5 * GB
    /\ input_list[1].lastWatched = NoDate
    /\ input_list[1].watchCount = 0
    /\ media_list[1].status = "candidate-delete"

\* one of the six rule conditions holds for the item
AnyRuleMatches(item, st, t) ==
    \/ item.rule = "keep-forever"
    \/ item.rootFolderPath = NULL
    \/ /\ item.type = "tv" /\ item.status \in {"ended", "Ended"} /\ item.size >= 8 * GB
       /\ item.rule \in {"archive-ended", "auto-manage"}
    \/ item.rule = "delete-if-streaming" /\ item.streamingServices # <<>>
    \/ /\ item.rule \in {"archive-after-6months", "auto-manage"}
       /\ OlderThan(item, t, SettingsGet(st, "archiveAfterMonths", 6) * 30)
    \/ /\ item.rule \in {"delete-after-watched", "auto-manage"}
       /\ item.watchCount > 0
       /\ OlderThan(item, t, SettingsGet(st, "autoDeleteAfterDays", 30))

\* a tv item: auto-manage, ended, 5 GB, tracked, never watched
EndedFiveGB(item) ==
    /\ item.type = "tv" /\ item.rule = "auto-manage" /\ item.status = "ended"
    /\ item.size = 5 * GB /\ item.rootFolderPath # NULL /\ item.lastWatched = NoDate

\* C15: after a pass an item that satisfied none of the six rule conditions
\* has the status and the reason it had before and is not a candidate; the
\* ended 5 GB show that was never watched still has status ended.
C15_UnmatchedUnchanged ==
    Classified =>
        \A i \in 1..Len(media_list) :
            /\ ~AnyRuleMatches(input_list[i], rule_settings, rule_now)
                 => /\ media_list[i].status = input_list[i].status
                    /\ media_list[i].reason = input_list[i].reason
                    /\ ~Candidate(media_list[i])
            /\ EndedFiveGB(input_list[i]) => media_list[i].status = "ended"

\* the ended 5 GB show after the pass
C15_Witness ==
    /\ Classified
    /\ EndedFiveGB(input_list[1])
    /\ ~AnyRuleMatches(input_list[1], rule_settings, rule_now)
    /\ media_list[1] = input_list[1]

\* the item reaches the archive-after-months rule: its rule selects it, it
\* has a lastWatched and none of the four earlier rules matched
ReachesArchiveRule(item) ==
    /\ item.rule \in {"archive-after-6months", "auto-manage"}
    /\ item.lastWatched # NoDate
    /\ item.rootFolderPath # NULL
    /\ ~(item.type = "tv" /\ item.status \in {"ended", "Ended"} /\ item.size >= 8 * GB)

\* half days elapsed between midnight of lastWatched and the instant t
HalfDaysSince(item, t) == t - 2 * item.lastWatched

\* archiveAfterMonths months of 30 days, in half days
ArchiveAge(st) == 2 * 30 * SettingsGet(st, "archiveAfterMonths", 6)

\* C16: after a pass an item that reached the archive-after-months rule is
\* candidate-archive exactly when more than archiveAfterMonths * 30 days lie
\* between its lastWatched and now; at exactly that age it is not.
C16_ThirtyDayMonths ==
    Classified =>
        \A i \in 1..Len(media_list) :
            ReachesArchiveRule(input_list[i])
            => /\ media_list[i].status = "candidate-archive"
                    <=> HalfDaysSince(input_list[i], rule_now) > ArchiveAge(rule_settings)
               /\ HalfDaysSince(input_list[i], rule_now) = ArchiveAge(rule_settings)
                    => media_list[i].status # "candidate-archive"

\* an item last watched exactly 180 days before now, six months configured
\* by default, and next to it the day count of the model reaches 181
C16_Witness ==
    /\ Classified
    /\ ReachesArchiveRule(input_list[1])
    /\ rule_settings = EmptySettings
    /\ input_list[1].lastWatched = Today - 180
    /\ rule_now = 2 * Today
    /\ HalfDaysSince(input_list[1], rule_now) = ArchiveAge(rule_settings)
    /\ media_list[1].status # "candidate-archive"

Reverse(q) == [i \in 1..Len(q) |-> q[Len(q) + 1 - i]]

----------------------------------------------------------------------------
(* Claims on the dashboard and on the callers of the snapshot builder.      *)
(* dashResp is the response of the GET /api/dashboard that produced the     *)
(* current state, lastRun the caller of the builder that produced it.       *)

DashboardCached == CacheHas(cache, "dashboard_data", now)

\* C18: a GET /api/dashboard answers 202 with the gathering message when no
\* dashboard aggregate is cached and 200 with the cached aggregate otherwise,
\* never anything else, and the request leaves the cache, the sync threads and
\* the scheduler jobs as they were.
C18_DashboardReadOnly ==
    /\ [](dashResp.code # 0 =>
             IF DashboardCached
             THEN /\ dashResp.code = 200 /\ dashResp.kind = "dashboard"
                  /\ dashResp.data = cache["dashboard_data"].v
             ELSE dashResp.code = 202 /\ dashResp.kind = "gathering")
    /\ [][dashResp' # NoDashResponse => UNCHANGED <<cache, thread, job>>]_vars

\* a request answered 202 because the published aggregate has expired
C18_Witness ==
    /\ dashResp.code = 202
    /\ cache["dashboard_data"].present
    /\ ~DashboardCached

\* the step is a run of perform_full_sync that published an aggregate
Published(run) == run.caller = "sync" /\ run.published

\* C19 as stated: a readable dashboard aggregate stays readable, with the
\* same value, across every step that is not a successful publish.
C19_KeptUntilNextPublish ==
    [][(DashboardCached /\ ~Published(lastRun'))
          => /\ get_dashboard_data(cache', now').code = 200
             /\ get_dashboard_data(cache', now') = get_dashboard_data(cache, now)]_vars

\* C19 amended: a failed run of perform_full_sync leaves the dashboard entry
\* untouched, and a readable dashboard aggregate stays readable, with the same
\* value, across every step that is not a successful publish and does not
\* reach the end of the entry's lifetime.
C19_KeptUntilPublishOrExpiry ==
    [][/\ (lastRun'.caller = "sync" /\ ~lastRun'.published)
            => cache'["dashboard_data"] = cache["dashboard_data"]
       /\ (DashboardCached /\ ~Published(lastRun') /\ cache["dashboard_data"].exp > now')
            => /\ get_dashboard_data(cache', now').code = 200
               /\ get_dashboard_data(cache', now') = get_dashboard_data(cache, now)]_vars

\* a failed run after the library has changed: the aggregate of the earlier
\* run is still the one readable
C19_Witness ==
    /\ lastRun.caller = "sync" /\ lastRun.raised # "none"
    /\ DashboardCached
    /\ get_dashboard_data(cache, now).data.media # plexItems

\* C20: whenever the snapshot builder runs without a connection to the media
\* server, its caller receives an empty snapshot of the Media shape and
\* raises nothing.
C20_EmptySnapshotConsumed ==
    (lastRun.caller # "none" /\ lastRun.fetched /\ ~lastRun.connected)
    => (lastRun.snapshot = "media" /\ lastRun.raised = "none")

----------------------------------------------------------------------------
(* Settings resolver *)

Empties == {PyNone, PyStr(<<>>), PyList(<<>>)}

\* the user settings a file holds
Persisted(doc) == IF doc.kind = "object" THEN doc.obj ELSE EmptyDict

UserHas(doc, k) == k \in DOMAIN Persisted(doc) /\ Persisted(doc)[k] \notin Empties

EnvHas(k) == k \in ENV_KEYS_TO_MERGE /\ environ[k].set

Loaded == lastOp.op = "load" /\ lastOp.raised = "none"

\* what the precedence default < environment < non-empty user value gives
Resolved(doc, k) ==
    IF UserHas(doc, k) THEN Persisted(doc)[k]
    ELSE IF EnvHas(k) THEN env_settings(environ)[k]
    ELSE get_default_settings[k]

\* C21: load() resolves every key by the precedence hardcoded default <
\* environment value < persisted user value; a persisted value overrides only
\* when it is not null, not the empty string and not an empty list, so an
\* explicit false or 0 overrides and an empty user value hides nothing.
C21_LoadPrecedence ==
    Loaded =>
        /\ DOMAIN lastOp.ret =
              DOMAIN get_default_settings
              \cup {k \in ENV_KEYS_TO_MERGE : EnvHas(k)}
              \cup {k \in DOMAIN Persisted(lastOp.before) : UserHas(lastOp.before, k)}
        /\ \A k \in DOMAIN lastOp.ret : lastOp.ret[k] = Resolved(lastOp.before, k)

\* a persisted false was loaded over a non-empty environment value
C21_Witness ==
    /\ Loaded
    /\ \E k \in DOMAIN Persisted(lastOp.before) :
          /\ Persisted(lastOp.before)[k] = PyBool(FALSE)
          /\ EnvHas(k) /\ environ[k].raw # <<>>
          /\ lastOp.ret[k] = PyBool(FALSE)

Saved == lastOp.op = "save" /\ lastOp.ok

\* C22: save(S) replaces the persisted user settings with exactly S, with no
\* older key kept and no default or environment value merged in, and the
\* load() that follows returns S[k] for every key k of S with a non-empty value.
C22_SaveReplaces ==
    /\ [](Saved => /\ files[DataFile].kind = "object"
                   /\ files[DataFile].obj = lastOp.arg)
    /\ [][(Saved /\ lastOp'.op = "load") =>
             /\ lastOp'.raised = "none"
             /\ \A k \in DOMAIN lastOp.arg :
                   lastOp.arg[k] \notin Empties =>
                       k \in DOMAIN lastOp'.ret /\ lastOp'.ret[k] = lastOp.arg[k]]_vars

\* an object without the key enableAutoActions was saved where the defaults
\* have one, and nothing but the object is in the file
C22_Witness ==
    /\ Saved
    /\ lastOp.arg = RuleObject
    /\ DOMAIN files[DataFile].obj = {"archiveAfterMonths", "autoDeleteAfterDays"}

\* a file that is there and does not hold a settings object
Damaged(doc) == doc.kind \in {"invalid", "truncated", "notobject", "unreadable"}

\* C23: storage faults of the settings store are never raised to the caller:
\* load() on a malformed persisted file returns the environment/default merge
\* as if the file were absent, and save() whose write fails returns False.
C23_StorageFaultsNotRaised ==
    /\ lastOp.op \in {"load", "save"} => lastOp.raised = "none"
    /\ (lastOp.op = "load" /\ Damaged(lastOp.before)) =>
           \A k \in DOMAIN get_default_settings :
               /\ k \in DOMAIN lastOp.ret
               /\ lastOp.ret[k] = Resolved(Absent, k)

\* C24: a load() that runs while a save() is in progress reads the complete
\* old file or the complete new file, never a partially written (truncated)
\* one, and so never falls back to the environment/default values because
\* of the write.
C24_LoadSeesCompleteFile ==
    (lastOp.op = "load" /\ lastOp.during) => lastOp.before.kind # "truncated"

RuleKeys == {"archiveAfterMonths", "autoDeleteAfterDays"}
CleanupKeys == {"enableAutoActions", "archiveMappings"}

\* the settings last saved through the resolver are in its file
SavedThroughResolver == files[DataFile].kind = "object" /\ ~saving.active

\* C25: every classification and action path uses the settings of the one
\* Settings Resolver: after save(S), the settings perform_full_sync loads, and
\* those GET /api/content and the cleanup load, carry S's archiveAfterMonths
\* and autoDeleteAfterDays, and the cleanup's carry S's enableAutoActions and
\* archiveMappings.
C25_SingleResolver ==
    (SavedThroughResolver /\ lastOp.op \in {"sync_load", "config_load"}) =>
        /\ lastOp.raised = "none"
        /\ \A k \in RuleKeys \cup (IF lastOp.op = "config_load" THEN CleanupKeys ELSE {}) :
              UserHas(files[DataFile], k) =>
                  k \in DOMAIN lastOp.ret /\ lastOp.ret[k] = files[DataFile].obj[k]

----------------------------------------------------------------------------
(* Classification behind the cache *)

\* C26: the classified list a runFullSync caches and publishes is the Rule
\* Engine's result on the snapshot read in that same pass, never a result
\* computed earlier from another snapshot: the published classified list
\* holds exactly the items of the published snapshot.
C26_ClassifiedFromSameSnapshot ==
    (lastRun.caller = "sync" /\ lastRun.published) =>
        /\ CacheHas(cache, "dashboard_data", now)
        /\ CacheGet(cache, "dashboard_data", now).analyzed =
              CacheGet(cache, "dashboard_data", now).media

----------------------------------------------------------------------------
(* Cleanup *)

CleanupRan == lastRun.caller = "cleanup"

\* C27: perform_cleanup_actions invokes a media-server delete or a
\* library-manager move only when the run is live (dry_run false) and
\* enableAutoActions is true in the loaded settings; a dry run, and a live
\* run with enableAutoActions false, perform no delete, no move and no cache
\* invalidation.
C27_CleanupOnlyLiveAndEnabled ==
    /\ []((CleanupRan /\ lastRun.calls # {}) => (~lastRun.dry_run /\ lastRun.enabled))
    /\ [][(lastRun'.caller = "cleanup" /\ (lastRun'.dry_run \/ ~lastRun'.enabled)) =>
             /\ plexItems' = plexItems
             /\ \A k \in CacheKeys : CacheHas(cache, k, now) => cache'[k] = cache[k]]_vars

\* a dry run went over a library with a delete candidate and cached results
C27_Witness ==
    /\ CleanupRan
    /\ lastRun.dry_run
    /\ lastRun.snapshot = "media"
    /\ lastRun.victims \cap plexItems # {}
    /\ CacheHas(cache, "dashboard_data", now)

----------------------------------------------------------------------------
(* Dashboard aggregate and repeated passes *)

CandidateStatuses == {"candidate-archive", "candidate-delete"}

\* positions of the classified list that hold a candidate
CandidateIndexes == {i \in 1..Len(media_list) : media_list[i].status \in CandidateStatuses}

\* the j-th of these positions, in list order
NthCandidate(j) ==
    CHOOSE i \in CandidateIndexes : Cardinality({k \in CandidateIndexes : k <= i}) = j

RECURSIVE SizeOver(_)
SizeOver(indexes) ==
    IF indexes = {} THEN 0
    ELSE LET i == CHOOSE x \in indexes : TRUE
         IN  media_list[i].size + SizeOver(indexes \ {i})

\* C28: in every dashboard aggregate published by runFullSync, candidates is
\* exactly the list of classified items whose status is candidate-archive or
\* candidate-delete, and potentialSavings is the sum of size over exactly
\* those items.
C28_CandidatesAndSavings ==
    rule_pc = "published" =>
        /\ Len(aggregate.candidates) = Cardinality(CandidateIndexes)
        /\ \A j \in 1..Len(aggregate.candidates) :
              aggregate.candidates[j] = media_list[NthCandidate(j)]
        /\ aggregate.potentialSavings = SizeOver(CandidateIndexes)

\* an aggregate over an archive candidate, a delete candidate and nothing else
C28_Witness ==
    /\ rule_pc = "published"
    /\ Len(media_list) = 2
    /\ media_list[1].status = "candidate-delete"
    /\ media_list[2].status = "candidate-archive"
    /\ aggregate.potentialSavings = media_list[1].size + media_list[2].size

RuleStatuses == {"protected", "Not Monitored", "candidate-archive", "candidate-delete"}

\* the status of position i was set by the pass
StatusSetByPass(i) ==
    /\ media_list[i].status \in RuleStatuses
    /\ media_list[i].status # input_list[i].status

\* C29: after a classification pass every item whose status was set by the
\* Rule Engine carries a reason that was set together with that status; no
\* item is a candidate with a null reason.
C29_ReasonSetWithStatus ==
    Classified =>
        \A i \in 1..Len(media_list) :
            StatusSetByPass(i) => media_list[i].reason # NULL

====
